---- MODULE Spec2Model ----
(***************************************************************************)
(* Model of the oral-exam voice agent (src/agent.py, src/exam_db_driver.py).*)
(*                                                                         *)
(* One session: the ExamState object, the speech handed to agent.say, and  *)
(* the asyncio tasks of the session: one handle_data_received task per     *)
(* data packet, one on_user_speech_committed task per committed utterance, *)
(* and the entrypoint coroutine with its periodic data check.              *)
(*                                                                         *)
(* asyncio is a single-threaded cooperative loop: a task runs without      *)
(* interruption from one await to the next.  Every action below is one     *)
(* such segment.  An event callback only calls asyncio.create_task and     *)
(* returns; the event loop starts the created tasks later, oldest first,   *)
(* after whatever it runs in between.                                      *)
(* Every await (agent.say, asyncio.sleep) is a point where the task is     *)
(* suspended and any other task may run before it resumes.                 *)
(***************************************************************************)
EXTENDS Integers, Sequences, FiniteSets

(***************************************************************************)
(* Bounds of the model: how many data packets and how many committed       *)
(* utterances one session receives.                                        *)
(***************************************************************************)
MaxMessages == 2
MaxCommits == 2
\* How many created tasks wait for the event loop to start them at once.
MaxCreated == 1
\* The same two bounds for the sessions in which the data check runs.
WatchMessages == 1
WatchCommits == 1

\* agent.py:168 (max_checks) and agent.py:176 (the check that reminds).
max_checks == 12
reminder_check == 3

\* Python's None: as a missing object and as a missing string.
None == [none |-> TRUE]
NoneStr == "<None>"

(***************************************************************************)
(* The exams collection of the document store.  A document is a record     *)
(* whose fields may be absent; get_exam_by_id fills the defaults.          *)
(***************************************************************************)
DocGet(doc, key, default) == IF key \in DOMAIN doc THEN doc[key] ELSE default

ValidObjectIds == {"aaaaaaaaaaaaaaaaaaaaaaa1", "aaaaaaaaaaaaaaaaaaaaaaa2",
                   "aaaaaaaaaaaaaaaaaaaaaaa3", "aaaaaaaaaaaaaaaaaaaaaaa0"}

\* bson.ObjectId.is_valid on the ids the model sends.
ObjectIdIsValid(exam_id) == exam_id \in ValidObjectIds

exams_collection ==
    [id \in {"aaaaaaaaaaaaaaaaaaaaaaa1", "aaaaaaaaaaaaaaaaaaaaaaa2",
             "aaaaaaaaaaaaaaaaaaaaaaa3"} |->
        CASE id = "aaaaaaaaaaaaaaaaaaaaaaa1" ->
                [_id |-> id, name |-> "Algebra",
                 questions |-> <<[text |-> "What is a group?"],
                                 [text |-> "What is a ring?"]>>,
                 duration |-> 30, difficulty |-> "Hard"]
          [] id = "aaaaaaaaaaaaaaaaaaaaaaa2" ->
                [_id |-> id,
                 questions |-> <<[points |-> 5]>>]
          [] id = "aaaaaaaaaaaaaaaaaaaaaaa3" ->
                [_id |-> id, name |-> "Blank", duration |-> 10]]

\* exams_collection.find_one({"_id": ObjectId(exam_id)}): the document or None.
find_one(exam_id) ==
    IF exam_id \in DOMAIN exams_collection THEN exams_collection[exam_id] ELSE None

\* [ExamQuestion(text=q.get("text", "")) for q in exam_data.get("questions", [])]
ExamQuestions(exam_data) ==
    LET qs == DocGet(exam_data, "questions", <<>>)
    IN  [i \in 1..Len(qs) |-> [text |-> DocGet(qs[i], "text", "")]]

\* The Exam dataclass built at exam_db_driver.py:45-51.
MakeExam(exam_data) ==
    [exam_id |-> exam_data._id,
     name |-> DocGet(exam_data, "name", "Unnamed Exam"),
     questions |-> ExamQuestions(exam_data),
     duration |-> DocGet(exam_data, "duration", 0),
     difficulty |-> DocGet(exam_data, "difficulty", "Medium")]

\* ExamDBDriver.get_exam_by_id; db_error: the store raises, which the
\* method catches and turns into None.
get_exam_by_id(exam_id, db_error) ==
    IF ~ObjectIdIsValid(exam_id) THEN None
    ELSE IF db_error THEN None
    ELSE IF find_one(exam_id) = None THEN None
    ELSE MakeExam(find_one(exam_id))

(***************************************************************************)
(* Data packets.  A packet is its bytes; decoding and parsing are modelled *)
(* by what they yield for the packets the model sends.                     *)
(***************************************************************************)
QuestionsPacket(exam_id) ==
    [bytes |-> "nonempty", utf8 |-> TRUE,
     json |-> [t |-> "object", type |-> "QUESTIONS",
               data |-> [t |-> "object", examId |-> exam_id]]]

Packets ==
    {[bytes |-> "empty"],
     [bytes |-> "nonempty", utf8 |-> FALSE],
     [bytes |-> "nonempty", utf8 |-> TRUE, json |-> [t |-> "invalid"]],
     [bytes |-> "nonempty", utf8 |-> TRUE, json |-> [t |-> "array"]],
     [bytes |-> "nonempty", utf8 |-> TRUE, json |-> [t |-> "object", type |-> "PING"]],
     [bytes |-> "nonempty", utf8 |-> TRUE, json |-> [t |-> "object", type |-> "QUESTIONS"]],
     [bytes |-> "nonempty", utf8 |-> TRUE,
      json |-> [t |-> "object", type |-> "QUESTIONS", data |-> [t |-> "null"]]],
     [bytes |-> "nonempty", utf8 |-> TRUE,
      json |-> [t |-> "object", type |-> "QUESTIONS", data |-> [t |-> "object"]]],
     QuestionsPacket(""),
     QuestionsPacket("not-an-object-id")}
    \cup {QuestionsPacket(id) : id \in ValidObjectIds}

\* data.data is truthy (agent.py:96).
HasData(packet) == packet.bytes # "empty"
\* data.data.decode("utf-8") succeeds (agent.py:98).
DecodesUtf8(packet) == packet.utf8
\* A variant of ParsesJson that accepts every text.
ParsesJsonAlways(packet) == TRUE

\* json.loads(message) succeeds (agent.py:100).
ParsesJson(packet) == packet.json.t # "invalid"

(***************************************************************************)
(* What agent.say is given.                                                *)
(***************************************************************************)
WelcomeMsg(e) ==
    [kind |-> "welcome", name |-> e.name, count |-> Len(e.questions),
     duration |-> e.duration, difficulty |-> e.difficulty,
     allow_interruptions |-> FALSE]
QuestionMsg(e, idx) ==
    [kind |-> "question", number |-> idx + 1, text |-> e.questions[idx + 1].text,
     allow_interruptions |-> TRUE]
ClosingMsg == [kind |-> "closing", allow_interruptions |-> FALSE]
InvalidMsg == [kind |-> "invalid_data", allow_interruptions |-> FALSE]
LoadFailedMsg == [kind |-> "load_failed", allow_interruptions |-> FALSE]
ReminderMsg == [kind |-> "reminder", allow_interruptions |-> FALSE]

(***************************************************************************)
(* State.                                                                  *)
(***************************************************************************)
VARIABLES
    exam,                  \* exam_state.exam: None or an Exam
    current_question_idx,  \* exam_state.current_question_idx
    questions_asked,       \* exam_state.questions_asked
    data_received,         \* exam_state.data_received
    exam_completed,        \* exam_state.exam_completed
    suspended,             \* how many handler tasks are suspended at each await
    main_pc,               \* where the entrypoint coroutine is suspended
    checks,                \* the entrypoint's local `checks`
    spoken,                \* every text handed to agent.say, in call order
    packets,               \* data packets delivered so far
    commits,               \* committed utterances reported so far
    caught,                \* exceptions caught in handle_data_received
    created                \* the tasks created and not yet started, oldest first

exam_state == <<exam, current_question_idx, questions_asked, data_received,
                exam_completed>>
vars == <<exam, current_question_idx, questions_asked, data_received,
          exam_completed, suspended, main_pc, checks, spoken, packets, commits,
          caught, created>>

\* The awaits of handle_data_received (agent.py:127, 130, 134), of
\* on_user_speech_committed (agent.py:153) and of ask_next_question
\* (agent.py:72, 84, 89).
Awaits == {"say_welcome", "welcome_delay", "say_failed", "commit_delay",
           "say_invalid", "say_question", "say_closing"}
AskAwaits == {"say_invalid", "say_question", "say_closing"}

\* One task leaves the await `from` ("new": it is created now) and suspends
\* at `to` ("done": it ends).  Tasks are anonymous coroutines: the state
\* keeps how many are suspended at each await.
Moved(from, to) ==
    [a \in Awaits |-> suspended[a] - (IF a = from THEN 1 ELSE 0)
                                   + (IF a = to THEN 1 ELSE 0)]
Goto(from, to) == suspended' = Moved(from, to)

\* agent.say(text): the text is handed to the speech channel at the call.
Say(msg) == spoken' = Append(spoken, msg)

\* ExamState.__init__ (agent.py:42-48); the entrypoint is awaiting the
\* participant (agent.py:145) with the data handler registered (agent.py:142).
Init ==
    /\ exam = None
    /\ current_question_idx = 0
    /\ questions_asked = 0
    /\ data_received = FALSE
    /\ exam_completed = FALSE
    /\ suspended = [a \in Awaits |-> 0]
    /\ main_pc = "wait_for_participant"
    /\ checks = 0
    /\ spoken = <<>>
    /\ packets = 0
    /\ commits = 0
    /\ caught = 0
    /\ created = <<>>

(***************************************************************************)
(* ask_next_question (agent.py:65-92), from its call to its first await or *)
(* its return, run by a task that was suspended at `from`.                 *)
(***************************************************************************)
\* A variant of NoDataReceived that never holds (the guard is missing).
NoDataReceivedUnchecked == FALSE

\* agent.py:66
NoDataReceived == ~data_received
\* agent.py:70
ExamIsNone == exam = None
\* A variant of ExamAlreadyCompleted that never holds (the guard is missing).
ExamAlreadyCompletedUnchecked == FALSE

\* agent.py:75
ExamAlreadyCompleted == exam_completed
\* agent.py:79
HasNextQuestion == current_question_idx < Len(exam.questions)

\* agent.py:67-68: log and return.
AskNoData(from) ==
    /\ Goto(from, "done")
    /\ UNCHANGED <<exam_state, spoken>>

\* A variant of AskInvalid that also ends the exam.
AskInvalidEndsExam(from) ==
    /\ Say(InvalidMsg)
    /\ Goto(from, "say_invalid")
    /\ exam_completed' = TRUE
    /\ UNCHANGED <<exam, current_question_idx, questions_asked, data_received>>

\* agent.py:71-72: the invalid-data message is spoken.
AskInvalid(from) ==
    /\ Say(InvalidMsg)
    /\ Goto(from, "say_invalid")
    /\ UNCHANGED exam_state

\* agent.py:76-77: log and return.
AskCompleted(from) ==
    /\ Goto(from, "done")
    /\ UNCHANGED <<exam_state, spoken>>

\* A variant of AskQuestion that does not count the question.
AskQuestionUncounted(from) ==
    /\ Say(QuestionMsg(exam, current_question_idx))
    /\ Goto(from, "say_question")
    /\ UNCHANGED exam_state

\* agent.py:80-84: the counter is incremented, then the question is spoken.
AskQuestion(from) ==
    /\ questions_asked' = questions_asked + 1
    /\ Say(QuestionMsg(exam, current_question_idx))
    /\ Goto(from, "say_question")
    /\ UNCHANGED <<exam, current_question_idx, data_received, exam_completed>>

\* A variant of AskClosing that does not mark the exam completed.
AskClosingUnmarked(from) ==
    /\ Say(ClosingMsg)
    /\ Goto(from, "say_closing")
    /\ UNCHANGED exam_state

\* agent.py:87-89: the exam is marked completed, then the closing is spoken.
AskClosing(from) ==
    /\ exam_completed' = TRUE
    /\ Say(ClosingMsg)
    /\ Goto(from, "say_closing")
    /\ UNCHANGED <<exam, current_question_idx, questions_asked, data_received>>

\* A variant of ask_next_question that, with no exam loaded, asks from a
\* built-in exam instead of reporting invalid data.
ask_next_question_fallback(from) ==
    IF NoDataReceived THEN AskNoData(from)
    ELSE IF ExamIsNone THEN
        /\ questions_asked' = questions_asked + 1
        /\ Say(QuestionMsg(MakeExam(exams_collection["aaaaaaaaaaaaaaaaaaaaaaa1"]), 0))
        /\ Goto(from, "say_question")
        /\ UNCHANGED <<exam, current_question_idx, data_received, exam_completed>>
    ELSE IF ExamAlreadyCompleted THEN AskCompleted(from)
    ELSE IF HasNextQuestion THEN AskQuestion(from)
    ELSE AskClosing(from)

ask_next_question(from) ==
    IF NoDataReceived THEN AskNoData(from)
    ELSE IF ExamIsNone THEN AskInvalid(from)
    ELSE IF ExamAlreadyCompleted THEN AskCompleted(from)
    ELSE IF HasNextQuestion THEN AskQuestion(from)
    ELSE AskClosing(from)

\* A variant of QuestionSaid that leaves the index where it is.
QuestionSaidNoAdvance ==
    /\ suspended["say_question"] > 0
    /\ Goto("say_question", "done")
    /\ UNCHANGED <<exam_state, main_pc, checks, spoken, packets, commits, caught, created>>

\* agent.say at agent.py:84 returns: the index moves on (agent.py:85).
QuestionSaid ==
    /\ suspended["say_question"] > 0
    /\ current_question_idx' = current_question_idx + 1
    /\ Goto("say_question", "done")
    /\ UNCHANGED <<exam, questions_asked, data_received, exam_completed,
                   main_pc, checks, spoken, packets, commits, caught, created>>

\* agent.say at agent.py:72 returns: ask_next_question returns (agent.py:73).
InvalidSaid ==
    /\ suspended["say_invalid"] > 0
    /\ Goto("say_invalid", "done")
    /\ UNCHANGED <<exam_state, main_pc, checks, spoken, packets, commits, caught, created>>

\* agent.say at agent.py:89 returns: ask_next_question ends.
ClosingSaid ==
    /\ suspended["say_closing"] > 0
    /\ Goto("say_closing", "done")
    /\ UNCHANGED <<exam_state, main_pc, checks, spoken, packets, commits, caught, created>>

(***************************************************************************)
(* handle_data_received (agent.py:94-139).                                 *)
(***************************************************************************)
\* message_json.get (agent.py:105) and data_obj.get (agent.py:107) raise
\* AttributeError on a value that is no object; agent.py:138 catches it.
Raises(json) == json.t # "object"
\* message_json.get("type") == "QUESTIONS" (agent.py:105)
IsQuestions(json) == DocGet(json, "type", NoneStr) = "QUESTIONS"
\* message_json.get("data", {}) (agent.py:106)
DataObj(json) == DocGet(json, "data", [t |-> "object"])
\* data_obj.get("examId") (agent.py:107)
ExamId(data_obj) == DocGet(data_obj, "examId", NoneStr)
\* A variant of NoExamId that never holds (the guard is missing).
NoExamIdUnchecked(exam_id) == FALSE

\* not exam_id (agent.py:109)
NoExamId(exam_id) == exam_id = NoneStr \/ exam_id = ""

\* A variant of LoadExam that stores the exam and only then, in a later
\* step, speaks the welcome.
LoadExamWelcomeLater(exam_id, db_error) ==
    /\ exam' = get_exam_by_id(exam_id, db_error)
    /\ IF exam' # None
       THEN UNCHANGED spoken /\ Goto("new", "say_welcome")
       ELSE Say(LoadFailedMsg) /\ Goto("new", "say_failed")

\* A variant of LoadExam that keeps the exam it has when the lookup fails.
LoadExamKeepsOnMiss(exam_id, db_error) ==
    /\ exam' = IF get_exam_by_id(exam_id, db_error) = None
               THEN exam
               ELSE get_exam_by_id(exam_id, db_error)
    /\ IF get_exam_by_id(exam_id, db_error) # None
       THEN Say(WelcomeMsg(exam')) /\ Goto("new", "say_welcome")
       ELSE Say(LoadFailedMsg) /\ Goto("new", "say_failed")

\* agent.py:115-134, reached with an examId: the lookup result is stored,
\* then the welcome or the failure message is spoken.
LoadExam(exam_id, db_error) ==
    /\ exam' = get_exam_by_id(exam_id, db_error)
    /\ IF exam' # None
       THEN Say(WelcomeMsg(exam')) /\ Goto("new", "say_welcome")
       ELSE Say(LoadFailedMsg) /\ Goto("new", "say_failed")

\* What asyncio.create_task is given: a call of handle_data_received with
\* the packet (agent.py:142), or of on_user_speech_committed (agent.py:157).
DataTask(packet) == [handler |-> "handle_data_received", data |-> packet]
CommitTask == [handler |-> "on_user_speech_committed"]

\* The room emits data_received: the callback of agent.py:142 creates the
\* task and returns.
DataReceived(packet) ==
    /\ packets' = packets + 1
    /\ created' = Append(created, DataTask(packet))
    /\ UNCHANGED <<exam_state, suspended, main_pc, checks, spoken, commits, caught>>

\* A variant of handle_data_received in which a payload that fails to decode
\* or to parse clears data_received.
handle_data_received_clears_flag(db_error) ==
    /\ created # <<>>
    /\ Head(created).handler = "handle_data_received"
    /\ created' = Tail(created)
    /\ UNCHANGED <<current_question_idx, questions_asked, exam_completed,
                   main_pc, checks, packets, commits>>
    /\ LET packet == Head(created).data IN
       IF ~HasData(packet) THEN
            UNCHANGED <<exam, data_received, spoken, suspended, caught>>
       ELSE IF ~DecodesUtf8(packet) \/ ~ParsesJson(packet) THEN
            /\ caught' = caught + 1
            /\ data_received' = FALSE
            /\ UNCHANGED <<exam, spoken, suspended>>
       ELSE
            /\ data_received' = TRUE
            /\ IF Raises(packet.json) THEN
                    caught' = caught + 1 /\ UNCHANGED <<exam, spoken, suspended>>
               ELSE IF ~IsQuestions(packet.json) THEN
                    UNCHANGED <<exam, spoken, suspended, caught>>
               ELSE IF Raises(DataObj(packet.json)) THEN
                    caught' = caught + 1 /\ UNCHANGED <<exam, spoken, suspended>>
               ELSE IF NoExamId(ExamId(DataObj(packet.json))) THEN
                    UNCHANGED <<exam, spoken, suspended, caught>>
               ELSE
                    /\ LoadExam(ExamId(DataObj(packet.json)), db_error)
                    /\ UNCHANGED caught

\* The event loop starts the oldest created task, a handle_data_received:
\* it runs agent.py:95-127 (or to 134, or to its return).  A failed decode
\* (UnicodeDecodeError), a failed parse (JSONDecodeError) and a .get on a
\* value that is no object (AttributeError) are caught at agent.py:136-139.
handle_data_received(db_error) ==
    /\ created # <<>>
    /\ Head(created).handler = "handle_data_received"
    /\ created' = Tail(created)
    /\ UNCHANGED <<current_question_idx, questions_asked, exam_completed,
                   main_pc, checks, packets, commits>>
    /\ LET packet == Head(created).data IN
       IF ~HasData(packet) THEN
            UNCHANGED <<exam, data_received, spoken, suspended, caught>>
       ELSE IF ~DecodesUtf8(packet) \/ ~ParsesJson(packet) THEN
            /\ caught' = caught + 1
            /\ UNCHANGED data_received
            /\ UNCHANGED <<exam, spoken, suspended>>
       ELSE
            /\ data_received' = TRUE
            /\ IF Raises(packet.json) THEN
                    caught' = caught + 1 /\ UNCHANGED <<exam, spoken, suspended>>
               ELSE IF ~IsQuestions(packet.json) THEN
                    UNCHANGED <<exam, spoken, suspended, caught>>
               ELSE IF Raises(DataObj(packet.json)) THEN
                    caught' = caught + 1 /\ UNCHANGED <<exam, spoken, suspended>>
               ELSE IF NoExamId(ExamId(DataObj(packet.json))) THEN
                    UNCHANGED <<exam, spoken, suspended, caught>>
               ELSE
                    /\ LoadExam(ExamId(DataObj(packet.json)), db_error)
                    /\ UNCHANGED caught

\* agent.say at agent.py:127 returns; the task sleeps 2 s (agent.py:130).
WelcomeSaid ==
    /\ suspended["say_welcome"] > 0
    /\ Goto("say_welcome", "welcome_delay")
    /\ UNCHANGED <<exam_state, main_pc, checks, spoken, packets, commits, caught, created>>

\* asyncio.sleep(2) returns; agent.py:131 calls ask_next_question.
WelcomeDelayOver ==
    /\ suspended["welcome_delay"] > 0
    /\ ask_next_question("welcome_delay")
    /\ UNCHANGED <<main_pc, checks, packets, commits, caught, created>>

\* agent.say at agent.py:134 returns; the handler ends.
LoadFailedSaid ==
    /\ suspended["say_failed"] > 0
    /\ Goto("say_failed", "done")
    /\ UNCHANGED <<exam_state, main_pc, checks, spoken, packets, commits, caught, created>>

(***************************************************************************)
(* on_user_speech_committed (agent.py:150-157).                            *)
(***************************************************************************)
\* The agent reports a committed utterance: the callback of agent.py:157
\* creates the task and returns.  The callback is registered at agent.py:157,
\* after the entrypoint's wait for the participant.
UserSpeechCommitted ==
    /\ main_pc # "wait_for_participant"
    /\ commits' = commits + 1
    /\ created' = Append(created, CommitTask)
    /\ UNCHANGED <<exam_state, suspended, main_pc, checks, spoken, packets, caught>>

\* The same event in a session in which utterances keep being committed:
\* they are not counted.
UserSpeechCommittedAgain ==
    /\ main_pc # "wait_for_participant"
    /\ created' = Append(created, CommitTask)
    /\ UNCHANGED <<exam_state, suspended, main_pc, checks, spoken, packets,
                   commits, caught>>

\* The event loop starts the oldest created task, an
\* on_user_speech_committed: it runs agent.py:151-153 and sleeps 1.5 s.
on_user_speech_committed ==
    /\ created # <<>>
    /\ Head(created).handler = "on_user_speech_committed"
    /\ created' = Tail(created)
    /\ Goto("new", "commit_delay")
    /\ UNCHANGED <<exam_state, main_pc, checks, spoken, packets, commits, caught>>

\* A variant of CommitDelayOver that never calls ask_next_question.
CommitDelayOverSilent ==
    /\ suspended["commit_delay"] > 0
    /\ Goto("commit_delay", "done")
    /\ UNCHANGED <<exam_state, spoken>>
    /\ UNCHANGED <<main_pc, checks, packets, commits, caught, created>>

\* asyncio.sleep(1.5) returns (agent.py:154-155).
CommitDelayOver ==
    /\ suspended["commit_delay"] > 0
    /\ IF ~exam_completed
       THEN ask_next_question("commit_delay")
       ELSE Goto("commit_delay", "done") /\ UNCHANGED <<exam_state, spoken>>
    /\ UNCHANGED <<main_pc, checks, packets, commits, caught, created>>

(***************************************************************************)
(* The entrypoint's periodic data check (agent.py:166-177).                *)
(***************************************************************************)
\* A variant of LoopOrLeave that does not look at max_checks.
LoopOrLeaveUnbounded(c) == IF ~data_received THEN "check_sleep" ELSE "done"

\* The while condition (agent.py:171) with `checks` at c: sleep or leave.
LoopOrLeave(c) == IF c < max_checks /\ ~data_received THEN "check_sleep" ELSE "done"

\* ctx.wait_for_participant returns; agent.py:146-171 run to the first sleep.
ParticipantJoined ==
    /\ main_pc = "wait_for_participant"
    /\ main_pc' = LoopOrLeave(checks)
    /\ UNCHANGED <<exam_state, suspended, checks, spoken, packets, commits, caught, created>>

\* A variant of DataCheck that reminds at every check from the third on.
DataCheckNagging ==
    /\ main_pc = "check_sleep"
    /\ checks' = checks + 1
    /\ IF checks' >= reminder_check /\ ~data_received
       THEN Say(ReminderMsg) /\ main_pc' = "say_reminder"
       ELSE main_pc' = LoopOrLeave(checks') /\ UNCHANGED spoken
    /\ UNCHANGED <<exam_state, suspended, packets, commits, caught, created>>

\* asyncio.sleep(check_interval) returns (agent.py:173-177).
DataCheck ==
    /\ main_pc = "check_sleep"
    /\ checks' = checks + 1
    /\ IF checks' = reminder_check /\ ~data_received
       THEN Say(ReminderMsg) /\ main_pc' = "say_reminder"
       ELSE main_pc' = LoopOrLeave(checks') /\ UNCHANGED spoken
    /\ UNCHANGED <<exam_state, suspended, packets, commits, caught, created>>

\* agent.say at agent.py:177 returns; back to the while condition.
ReminderSaid ==
    /\ main_pc = "say_reminder"
    /\ main_pc' = LoopOrLeave(checks)
    /\ UNCHANGED <<exam_state, suspended, checks, spoken, packets, commits, caught, created>>

(***************************************************************************)
(* The session.                                                            *)
(***************************************************************************)
\* The handlers: handle_data_received, on_user_speech_committed and
\* ask_next_question, with at most MaxMessages data packets and MaxCommits
\* committed utterances in the session, and at most MaxCreated tasks created
\* and not yet started at once.
HandlerNext ==
    \/ /\ packets < MaxMessages
       /\ Len(created) < MaxCreated
       /\ \E packet \in Packets : DataReceived(packet)
    \/ /\ commits < MaxCommits
       /\ Len(created) < MaxCreated
       /\ UserSpeechCommitted
    \/ \E db_error \in BOOLEAN : handle_data_received(db_error)
    \/ on_user_speech_committed
    \/ WelcomeSaid
    \/ WelcomeDelayOver
    \/ LoadFailedSaid
    \/ CommitDelayOver
    \/ QuestionSaid
    \/ InvalidSaid
    \/ ClosingSaid
    \/ ParticipantJoined

Next ==
    \/ HandlerNext
    \/ DataCheck
    \/ ReminderSaid

\* The whole session.
Spec == Init /\ [][Next]_vars

\* The session while the data check's 5 s timer has not fired.  The data
\* check writes only `checks`, main_pc and a reminder to `spoken`, and reads
\* only data_received, so the handlers behave the same with or without it.
ExamSpec == Init /\ [][HandlerNext]_vars

\* One scripted session: a QUESTIONS packet for the two-question exam, then
\* three committed utterances, under every timing of the tasks.  InvalidSaid
\* and LoadFailedSaid are left out: they are never enabled here.
ScenarioNext ==
    \/ /\ packets = 0
       /\ commits = 0
       /\ DataReceived(QuestionsPacket("aaaaaaaaaaaaaaaaaaaaaaa1"))
    \/ /\ packets = 1
       /\ commits < 3
       /\ UserSpeechCommitted
    \/ handle_data_received(FALSE)
    \/ on_user_speech_committed
    \/ WelcomeSaid
    \/ WelcomeDelayOver
    \/ CommitDelayOver
    \/ QuestionSaid
    \/ ClosingSaid
    \/ ParticipantJoined
    \/ DataCheck
    \/ ReminderSaid

ScenarioSpec == Init /\ [][ScenarioNext]_vars

\* The session with its data check: every timing of the check's twelve 5 s
\* sleeps against at most WatchMessages data packets, at most WatchCommits
\* committed utterances and the handlers' tasks.
WatchdogNext ==
    \/ /\ packets < WatchMessages
       /\ Len(created) < MaxCreated
       /\ \E packet \in Packets : DataReceived(packet)
    \/ /\ commits < WatchCommits
       /\ Len(created) < MaxCreated
       /\ UserSpeechCommitted
    \/ \E db_error \in BOOLEAN : handle_data_received(db_error)
    \/ on_user_speech_committed
    \/ WelcomeSaid
    \/ WelcomeDelayOver
    \/ LoadFailedSaid
    \/ CommitDelayOver
    \/ QuestionSaid
    \/ InvalidSaid
    \/ ClosingSaid
    \/ ParticipantJoined
    \/ DataCheck
    \/ ReminderSaid

WatchdogSpec == Init /\ [][WatchdogNext]_vars

\* How many handler tasks are alive: created or suspended.
TasksAlive ==
    suspended["say_welcome"] + suspended["welcome_delay"] + suspended["say_failed"]
    + suspended["commit_delay"] + suspended["say_invalid"]
    + suspended["say_question"] + suspended["say_closing"] + Len(created)

\* The exams the store holds.
StoredIds == DOMAIN exams_collection

\* A session in which one QUESTIONS packet loads an exam, which then stays
\* loaded, and utterances keep being committed, at most MaxCommits of their
\* tasks being alive next to the packet's.  InvalidSaid and LoadFailedSaid
\* are left out: they are never enabled here.
LoadedPacket ==
    /\ packets = 0
    /\ \E id \in StoredIds : DataReceived(QuestionsPacket(id))
RecurringCommit ==
    /\ TasksAlive <= MaxCommits
    /\ UserSpeechCommittedAgain
LiveNext ==
    \/ LoadedPacket
    \/ RecurringCommit
    \/ handle_data_received(FALSE)
    \/ on_user_speech_committed
    \/ WelcomeSaid
    \/ WelcomeDelayOver
    \/ CommitDelayOver
    \/ QuestionSaid
    \/ ClosingSaid
    \/ ParticipantJoined
    \/ DataCheck
    \/ ReminderSaid

\* The event loop runs every task that is ready: each
\* created task starts, each sleep and each say returns, the participant
\* joins, and a further utterance is committed.
LiveSpec ==
    /\ Init
    /\ [][LiveNext]_vars
    /\ WF_vars(RecurringCommit)
    /\ WF_vars(handle_data_received(FALSE))
    /\ WF_vars(on_user_speech_committed)
    /\ WF_vars(WelcomeSaid)
    /\ WF_vars(WelcomeDelayOver)
    /\ WF_vars(CommitDelayOver)
    /\ WF_vars(QuestionSaid)
    /\ WF_vars(ClosingSaid)
    /\ WF_vars(ParticipantJoined)
    /\ WF_vars(DataCheck)
    /\ WF_vars(ReminderSaid)

(***************************************************************************)
(* Properties.                                                             *)
(***************************************************************************)
\* How many texts of this kind have been handed to agent.say.
Count(kind) == Cardinality({i \in DOMAIN spoken : spoken[i].kind = kind})
\* The questions spoken so far, in order.
IsQuestion(m) == m.kind = "question"
QuestionsSpoken == SelectSeq(spoken, IsQuestion)
\* The speech of the exam itself: everything but the data-check reminder.
NotReminder(m) == m.kind # "reminder"
ExamSpeech == SelectSeq(spoken, NotReminder)
\* No handler task is alive: none created and not started, none suspended.
Idle == created = <<>> /\ \A a \in Awaits : suspended[a] = 0
\* This step starts the oldest created task, a handle_data_received of
\* packet p.
Handles(p) ==
    /\ created # <<>>
    /\ Head(created) = DataTask(p)
    /\ created' = Tail(created)
\* How many executions of ask_next_question are suspended inside it.
InAsk == suspended["say_invalid"] + suspended["say_question"] + suspended["say_closing"]
\* This step hands a question to agent.say.
QuestionStarts ==
    /\ Len(spoken') = Len(spoken) + 1
    /\ spoken'[Len(spoken')].kind = "question"
\* This step calls ask_next_question (agent.py:131 or agent.py:155).
AskInvoked ==
    \/ suspended'["welcome_delay"] < suspended["welcome_delay"]
    \/ suspended'["commit_delay"] < suspended["commit_delay"] /\ ~exam_completed
\* Exactly one exam was loaded in the session, and it is still the exam.
OneExamLoaded == exam # None /\ Count("welcome") = 1
TwoQuestionExam == MakeExam(exams_collection["aaaaaaaaaaaaaaaaaaaaaaa1"])

\* C1: for a loaded exam with N >= 1 questions, the questions are spoken in
\* strict order 1..N, each once, label k with the k-th text; the closing is
\* spoken once, after all N questions, and no question follows it.
C1_QuestionsInOrderOnce ==
    OneExamLoaded /\ Len(exam.questions) >= 1 =>
        /\ \A k \in DOMAIN QuestionsSpoken :
                /\ k <= Len(exam.questions)
                /\ QuestionsSpoken[k].number = k
                /\ QuestionsSpoken[k].text = exam.questions[k].text
        /\ Count("closing") <= 1
        /\ Count("closing") = 1 => Len(QuestionsSpoken) = Len(exam.questions)
        /\ \A i, j \in DOMAIN spoken :
                i < j /\ spoken[i].kind = "closing" => spoken[j].kind # "question"

\* C2: at most one execution of ask_next_question is in progress: none is
\* inside it while another is suspended at the question's say.
C2_OneAskAtATime == suspended["say_question"] >= 1 => InAsk <= 1

\* C3: after a QUESTIONS packet for the two-question exam and then three
\* committed utterances, all handled, the exam's speech is exactly: welcome,
\* question 1, question 2, closing.
C3_ScenarioTranscript ==
    packets = 1 /\ commits = 3 /\ Idle =>
        ExamSpeech = <<WelcomeMsg(TwoQuestionExam),
                       QuestionMsg(TwoQuestionExam, 0),
                       QuestionMsg(TwoQuestionExam, 1),
                       ClosingMsg>>

\* C4: while an exam is loaded, current_question_idx <= len(exam.questions)
\* (stated for sessions that loaded one exam only).
C4_IndexWithinExam ==
    OneExamLoaded => current_question_idx <= Len(exam.questions)

\* C5 as stated: questions_asked <= current_question_idx in every state, also
\* while a question's say is suspended.
C5_AskedAtMostIndex == questions_asked <= current_question_idx

\* C5, amended: current_question_idx <= questions_asked in every state, and
\* questions_asked <= current_question_idx in every state where no
\* question's say is suspended.
C5_IndexAtMostAsked ==
    /\ current_question_idx <= questions_asked
    /\ suspended["say_question"] = 0 => questions_asked <= current_question_idx

\* C5 witness: a question's say is suspended and the counter is ahead of the
\* index.
C5_Witness ==
    /\ suspended["say_question"] = 1
    /\ questions_asked = 2
    /\ current_question_idx = 1

\* C6: exam_completed is set at most once and never reset, and once it is
\* true no step hands a question to agent.say.
C6_CompletedIsFinal ==
    /\ [](Count("closing") <= 1)
    /\ [][/\ exam_completed => exam_completed'
          /\ exam_completed' /\ ~exam_completed => ~QuestionStarts /\ Count("closing") = 0
          /\ exam_completed => ~QuestionStarts]_vars

\* C6 witness: the exam was completed and a later QUESTIONS packet was then
\* welcomed and its ask_next_question returned without a question.
C6_Witness ==
    /\ exam_completed
    /\ Idle
    /\ Count("welcome") = 2
    /\ spoken[Len(spoken)].kind = "welcome"

\* C7: whenever a question is handed to agent.say, data_received is true and
\* an exam is present, before and after that step.
C7_QuestionNeedsExam ==
    [][QuestionStarts =>
        /\ data_received /\ exam # None
        /\ data_received' /\ exam' # None]_vars

\* C7 witness: an exam was loaded, a later packet failed to load (exam is
\* None), ask_next_question was then invoked, and only the questions asked
\* before the failure were spoken.
C7_Witness ==
    /\ exam = None
    /\ Count("question") = 1
    /\ Count("load_failed") = 1
    /\ Count("invalid_data") = 1
    /\ Idle

\* C8: an invocation of ask_next_question while data_received is false
\* speaks nothing and changes no field of the exam state.
C8_SilentBeforeData ==
    [][AskInvoked /\ ~data_received => UNCHANGED <<exam_state, spoken>>]_vars

\* C8 witness: utterances were committed and their tasks ran
\* ask_next_question before any data arrived.
C8_Witness ==
    /\ ~data_received
    /\ commits >= 2
    /\ suspended["commit_delay"] = 0

\* C9 as stated: every invocation of ask_next_question with exam absent
\* speaks the invalid-data message and leaves the counters unchanged.
C9_AbsentExamAlwaysSpeaks ==
    [][AskInvoked /\ exam = None =>
        /\ spoken' = Append(spoken, InvalidMsg)
        /\ UNCHANGED <<current_question_idx, questions_asked, exam_completed>>]_vars

\* C9, amended: every invocation of ask_next_question with data_received
\* true and exam absent speaks exactly the invalid-data message, once (the
\* return from that say speaks nothing more), and leaves
\* current_question_idx, questions_asked and exam_completed unchanged.
C9_AbsentExamAfterData ==
    [][/\ AskInvoked /\ data_received /\ exam = None =>
            /\ spoken' = Append(spoken, [kind |-> "invalid_data",
                                         allow_interruptions |-> FALSE])
            /\ UNCHANGED <<current_question_idx, questions_asked, exam_completed>>
       /\ suspended'["say_invalid"] < suspended["say_invalid"] =>
            UNCHANGED <<exam_state, spoken>>]_vars

\* C9 witness: a packet was received whose exam failed to load, a committed
\* utterance then ran ask_next_question, and its say has returned.
C9_Witness ==
    /\ data_received
    /\ exam = None
    /\ commits = 1
    /\ Count("invalid_data") = 1
    /\ Idle

\* C10: when the lookup returns no exam, the handler speaks the failure
\* message only, never calls ask_next_question, and exam is absent when the
\* handler finishes.
C10_MissLeavesExamAbsent ==
    [][suspended'["say_failed"] < suspended["say_failed"] =>
        /\ exam' = None
        /\ UNCHANGED <<exam_state, spoken>>]_vars

\* This step starts the oldest created task, a handle_data_received.
HandlesPacket ==
    /\ created # <<>>
    /\ Head(created).handler = "handle_data_received"
    /\ created' = Tail(created)
\* The payload has bytes that are no UTF-8 text or no JSON text.
Malformed(p) == p.bytes = "nonempty" /\ (~p.utf8 \/ p.json.t = "invalid")

\* C11: a packet whose payload fails to decode as UTF-8 or to parse as JSON
\* is caught inside the handler (its task ends, no task is left suspended by
\* it), leaves data_received at its prior value, speaks nothing and leaves
\* exam, current_question_idx, questions_asked and exam_completed unchanged;
\* the entrypoint and the suspended tasks are left as they were.
C11_MalformedIgnored ==
    [][(HandlesPacket /\ Malformed(Head(created).data)) =>
              /\ caught' = caught + 1
              /\ UNCHANGED <<exam_state, spoken, suspended, main_pc, checks>>]_vars

\* C11 witness: two malformed packets were handled one after the other, both
\* caught, and data_received is still false with nothing spoken.
C11_Witness ==
    /\ caught = 2
    /\ packets = 2
    /\ ~data_received
    /\ spoken = <<>>
    /\ Idle

\* The payload is UTF-8 text holding a JSON value.
IsJson(p) == p.bytes = "nonempty" /\ p.utf8 /\ p.json.t # "invalid"
\* The JSON value is no object of type "QUESTIONS", or carries no examId, or
\* an empty one.
NoExamRequested(p) ==
    \/ p.json.t # "object"
    \/ "type" \notin DOMAIN p.json
    \/ p.json.type # "QUESTIONS"
    \/ "data" \notin DOMAIN p.json
    \/ p.json.data.t # "object"
    \/ "examId" \notin DOMAIN p.json.data
    \/ p.json.data.examId = ""

\* C12: every non-empty payload that decodes as UTF-8 JSON sets data_received
\* to true; if its type is not "QUESTIONS" or its examId is missing or empty,
\* the handler does nothing else: exam (no lookup result is stored),
\* current_question_idx, questions_asked and exam_completed are unchanged,
\* nothing is spoken and no task is left suspended.
C12_DecodedSetsDataReceived ==
    [][(HandlesPacket /\ IsJson(Head(created).data)) =>
              /\ data_received'
              /\ NoExamRequested(Head(created).data) =>
                    UNCHANGED <<exam, current_question_idx, questions_asked,
                                exam_completed, spoken, suspended, main_pc,
                                checks>>]_vars

\* C12 witness: one packet was delivered, it raised nothing and it set
\* data_received, and no exam was looked up and nothing was spoken.
C12_Witness ==
    /\ packets = 1
    /\ caught = 0
    /\ data_received
    /\ exam = None
    /\ spoken = <<>>
    /\ Idle

\* This step hands the reminder to agent.say.
ReminderStarts ==
    /\ Len(spoken') = Len(spoken) + 1
    /\ spoken'[Len(spoken')].kind = "reminder"

\* C13: the data check speaks the reminder at most once in a session, and
\* exactly in the step in which its 3rd sleep ends (checks goes from 2 to 3)
\* with data_received still false: not when data_received is true by then,
\* and at no other check.
C13_ReminderAtThirdCheckOnly ==
    [][ /\ (ReminderStarts <=> (checks = 2 /\ checks' = 3 /\ ~data_received))
        /\ (ReminderStarts => Count("reminder") = 0) ]_vars

\* C13 witness: all twelve checks ran without data, and the reminder was
\* spoken once.
C13_Witness ==
    /\ checks = 12
    /\ main_pc = "done"
    /\ ~data_received
    /\ Count("reminder") = 1

\* A step of the data check: a sleep ends or the reminder's say returns.
WatchdogSteps == checks' # checks \/ main_pc' # main_pc

\* C14: the data check's loop ends after at most 12 checks, and at the first
\* check that finds data_received true; once ended it stays ended.  Its
\* steps change no field of exam_state and no handler task.  After it ended
\* a QUESTIONS packet still loads an exam and a committed utterance still
\* starts a task.
C14_WatchdogEndsAndIsInert ==
    /\ [](main_pc = "done" =>
            /\ ENABLED DataReceived(QuestionsPacket("aaaaaaaaaaaaaaaaaaaaaaa1"))
            /\ ENABLED UserSpeechCommitted
            /\ (created # <<>> /\ Head(created) = CommitTask) =>
                    ENABLED on_user_speech_committed
            /\ (created # <<>>
                  /\ Head(created) = DataTask(QuestionsPacket("aaaaaaaaaaaaaaaaaaaaaaa1"))) =>
                    ENABLED (/\ handle_data_received(FALSE)
                             /\ exam' # None
                             /\ suspended'["say_welcome"] = suspended["say_welcome"] + 1))
    /\ [][ /\ checks' <= 12
           /\ (main_pc' \in {"check_sleep", "say_reminder"} => checks' < 12)
           /\ ((checks' = checks + 1 /\ data_received) => main_pc' = "done")
           /\ (main_pc = "done" => (main_pc' = "done" /\ checks' = checks))
           /\ (WatchdogSteps => UNCHANGED <<exam_state, suspended>>) ]_vars

\* C14 witness: the data check ran its twelve checks and ended, the reminder
\* being the first thing spoken; an exam is loaded and a committed utterance
\* got its second question asked.
C14_Witness ==
    /\ checks = 12
    /\ main_pc = "done"
    /\ spoken # <<>>
    /\ spoken[1].kind = "reminder"
    /\ exam # None
    /\ commits = 1
    /\ Count("question") = 2

\* C15: once an exam is loaded (and stays loaded), with utterances that keep
\* being committed and every sleep and say returning, exam_completed
\* eventually becomes true and the closing message is spoken.
C15_LoadedExamCompletes ==
    (exam # None) ~> (exam_completed /\ Count("closing") = 1)

\* C15 witness: the two-question exam was loaded, both questions were asked
\* and the exam was completed with the closing message.
C15_Witness ==
    /\ exam # None
    /\ Len(exam.questions) = 2
    /\ Count("question") >= 2
    /\ exam_completed
    /\ Count("closing") = 1
    /\ Idle

\* C16: current_question_idx starts at 0 and no step decreases it, and no
\* step takes data_received from true to false.
C16_IndexAndFlagMonotonic ==
    /\ current_question_idx = 0
    /\ [][ /\ current_question_idx' >= current_question_idx
           /\ (data_received => data_received') ]_vars

\* C16 witness: with an exam loaded and its first question asked, a second
\* packet was delivered whose payload failed to decode or to parse;
\* data_received is true and the index is 1.
C16_Witness ==
    /\ packets = 2
    /\ caught = 1
    /\ Count("welcome") = 1
    /\ data_received
    /\ current_question_idx = 1
    /\ Idle

\* C17: in every reachable state questions_asked minus current_question_idx
\* is the number of question says that are suspended.
C17_AskedMinusIndexIsInFlight ==
    questions_asked - current_question_idx = suspended["say_question"]

\* C17 witness: two question says are suspended at once, after one question
\* was asked and its say returned.
C17_Witness ==
    /\ suspended["say_question"] = 2
    /\ current_question_idx = 1
    /\ questions_asked = 3

\* The exam ids of the QUESTIONS packets that reach the lookup.
RequestedIds == ValidObjectIds \cup {"not-an-object-id"}
\* This step starts the handle_data_received of such a packet.
HandlesRequest == \E id \in RequestedIds : Handles(QuestionsPacket(id))
\* The exam id of the packet of the oldest created task.
RequestedId == Head(created).data.json.data.examId

\* C18: a QUESTIONS packet handled while an exam is loaded stores the lookup
\* result in exam (None on a miss) and leaves current_question_idx,
\* questions_asked and exam_completed as they are; a question asked later is
\* the one at the current index of the exam loaded then; and if the exam was
\* already completed, the packet's welcome is all that is spoken for it and
\* no question is asked any more.
C18_ReloadKeepsProgress ==
    [][ /\ (exam # None /\ HandlesRequest) =>
              /\ exam' \in {get_exam_by_id(RequestedId, e) : e \in BOOLEAN}
              /\ UNCHANGED <<current_question_idx, questions_asked,
                             exam_completed>>
              /\ (exam_completed /\ exam' # None) =>
                    spoken' = Append(spoken, WelcomeMsg(exam'))
        /\ (QuestionStarts =>
               spoken'[Len(spoken')] = QuestionMsg(exam, current_question_idx))
        /\ (exam_completed => ~QuestionStarts) ]_vars

\* C18 witness: the one-question exam was loaded and its question asked; then
\* the two-question exam was loaded over it, and after its welcome the
\* handler asked that exam's question 2.
C18_Witness ==
    /\ Len(spoken) = 4
    /\ spoken[1].kind = "welcome" /\ spoken[1].count = 1
    /\ spoken[2].kind = "question" /\ spoken[2].number = 1
    /\ spoken[3].kind = "welcome" /\ spoken[3].count = 2
    /\ exam # None
    /\ exam.name = "Algebra"
    /\ spoken[4] = QuestionMsg(exam, 1)

\* C19: in every reachable state, every question handed to agent.say comes
\* after a welcome handed to agent.say.
C19_WelcomeBeforeQuestions ==
    \A j \in DOMAIN spoken :
        spoken[j].kind = "question" =>
            \E i \in 1..(j - 1) : spoken[i].kind = "welcome"

\* C19 witness: the welcome's say has not returned yet, and a committed
\* utterance's task has already asked question 1.
C19_Witness ==
    /\ suspended["say_welcome"] = 1
    /\ suspended["welcome_delay"] = 0
    /\ Count("welcome") = 1
    /\ Count("question") = 1
    /\ spoken[Len(spoken)].kind = "question"

\* An exam with no questions is loaded, and no exam with questions has been
\* loaded in the session.
ZeroQuestionExam ==
    /\ exam # None
    /\ Len(exam.questions) = 0
    /\ \A i \in DOMAIN spoken : spoken[i].kind = "welcome" => spoken[i].count = 0
\* With such an exam: no question was spoken, both counters are 0, and the
\* closing message was spoken once if the exam is completed and not at all
\* otherwise.
ZeroQuestionOutcome ==
    /\ Count("question") = 0
    /\ current_question_idx = 0
    /\ questions_asked = 0
    /\ Count("closing") = (IF exam_completed THEN 1 ELSE 0)
\* This step calls ask_next_question for such an exam, not yet completed.
FirstAskOfZeroQuestionExam == AskInvoked /\ ZeroQuestionExam /\ ~exam_completed
\* This step sets exam_completed and speaks the closing message.
Closes == exam_completed' /\ spoken' = Append(spoken, ClosingMsg)

\* C20 as stated: for a loaded exam with zero questions, the first call of
\* ask_next_question is the message handler's, after its welcome and delay,
\* and it sets exam_completed and speaks the closing message; no question is
\* spoken, both counters stay 0 and the closing message is spoken once.
C20_HandlerClosesZeroQuestionExam ==
    /\ [](ZeroQuestionExam => ZeroQuestionOutcome)
    /\ [][ FirstAskOfZeroQuestionExam =>
             /\ suspended'["welcome_delay"] < suspended["welcome_delay"]
             /\ Closes ]_vars

\* C20, amended: for a loaded exam with zero questions, the first call of
\* ask_next_question after the load, be it the message handler's or that of
\* a committed utterance's task that wakes before it, sets exam_completed
\* and speaks the closing message; no question is spoken, both counters stay
\* 0 and the closing message is spoken once, whatever utterances follow.
C20_FirstAskClosesZeroQuestionExam ==
    /\ [](ZeroQuestionExam => ZeroQuestionOutcome)
    /\ [][ FirstAskOfZeroQuestionExam => Closes ]_vars

\* C20 witness: the exam without questions was loaded, the closing message
\* followed its welcome, and two committed utterances' tasks have run since
\* without anything more being spoken.
C20_Witness ==
    /\ ZeroQuestionExam
    /\ exam_completed
    /\ packets = 1
    /\ commits = 2
    /\ Idle
    /\ spoken = <<WelcomeMsg(exam), ClosingMsg>>
====
